---- MODULE Spec2Model ----
(***************************************************************************)
(* Model of the alert API: main.py (multi-user login in two steps, session *)
(* saved in the Firestore collection 'users', alert sending) and           *)
(* telegram.py (single-tenant alert sending with a module-level client).   *)
(* Every request handler is cut at its await points; requests occupy a     *)
(* slot while they run and the slots interleave freely.                    *)
(***************************************************************************)
EXTENDS Integers, FiniteSets, Sequences, TLC

\* ---- bounds ----
NHashNames == 3
MaxTok == 2

Slots == {"a", "b"}
Phones == {"p1", "p2"}
\* the phones that send requests
Callers == {"p1"}

NoPhone == "none"
NoHash == 0
NoTok == 0
NoDoc == [exists |-> FALSE]
Hashes == 1..NHashNames
Tokens == 1..MaxTok
Codes == {"good", "bad"}
\* request.password: None (or the empty string), the account's password, another one
Passwords == {"None", "right", "wrong"}

VARIABLES
    twoFA,             \* network side: the accounts with a second-factor password
    app,               \* which module is deployed: "main.py" or "telegram.py"
    req,               \* per slot: the handler running there and its locals
    temp_login_cache,  \* main.py: dict phone -> {"phone_code_hash": hash}
    users,             \* Firestore collection 'users': phone -> document
    db,                \* main.py: the Firestore client exists
    client,            \* telegram.py: the module-level TelegramClient exists
    envAuth,           \* telegram.py: TELEGRAM_SESSION is still authorized
    tgHash,            \* network side: the latest phone_code_hash sent per phone
    tgUsed,            \* network side: the phones whose latest hash is redeemed
    tgAuth,            \* network side: the session tokens still authorized
    nTok,              \* network side: session tokens handed out so far
    lastIssued,        \* history: hash the latest login-start got, until it is consumed
    lastOkTok          \* history: token of the latest login-finish that returned 200

vars == <<twoFA, app, req, temp_login_cache, users, db, client, envAuth, tgHash, tgUsed,
          tgAuth, nTok, lastIssued, lastOkTok>>

env == <<twoFA, app, db, client, envAuth>>
net == <<tgHash, tgUsed, tgAuth, nTok>>

IdleReq == [pc |-> "idle", kind |-> "none", phone |-> NoPhone, code |-> "none",
            password |-> "None", cached |-> NoHash, presented |-> NoHash,
            tok |-> NoTok, pend |-> 0, status |-> 0, detail |-> "",
            unhandled |-> FALSE, conn |-> "none", authorized |-> "unknown",
            sentText |-> FALSE, sentLoc |-> FALSE, failed |-> "",
            answer |-> "", fresh |-> FALSE, solo |-> TRUE]

\* ---- the document store (Firestore, collection 'users') ----

\* a document that loses the session string on the way to the store
UserDocBlank(phone, session_string) ==
    [exists |-> TRUE, phone |-> phone, session_string |-> NoTok]

\* doc_ref.set({...}): the document written by login_step_2
UserDoc(phone, session_string) ==
    [exists |-> TRUE, phone |-> phone, session_string |-> session_string]

\* user_data.get('session_string') of an existing document
SessionStr(doc) == doc.session_string

\* ---- the in-memory cache of main.py ----

\* a cache that keeps the first entry of a phone (dict.setdefault)
CachePutFirst(cache, phone, hash) ==
    [p \in DOMAIN cache \cup {phone} |->
        IF p \in DOMAIN cache THEN cache[p] ELSE [phone_code_hash |-> hash]]

\* temp_login_cache[phone] = {"phone_code_hash": hash}
CachePut(cache, phone, hash) ==
    [p \in DOMAIN cache \cup {phone} |->
        IF p = phone THEN [phone_code_hash |-> hash] ELSE cache[p]]

\* a removal that removes nothing
CacheKeep(cache, phone) == cache

\* del temp_login_cache[phone] (the key is present)
CacheDel(cache, phone) == [p \in DOMAIN cache \ {phone} |-> cache[p]]

\* ---- the messaging network (Telethon calls) ----

\* the network still accepts this hash for this phone
Redeemable(phone, hash) ==
    hash # NoHash /\ hash = tgHash[phone] /\ phone \notin tgUsed

\* client.send_code_request(phone): the hash the network sends back; it differs
\* from the previous one and from every hash a running request still holds
NewHash(phone) ==
    CHOOSE h \in Hashes :
        /\ h # tgHash[phone]
        /\ \A s \in Slots : req[s].phone = phone => req[s].cached # h
        /\ \A g \in Hashes :
              (g # tgHash[phone] /\ \A s \in Slots : req[s].phone = phone => req[s].cached # g)
                 => h <= g

\* client.sign_in(phone, code, phone_code_hash): what the network answers
SignInCode(phone, code, hash) ==
    IF Redeemable(phone, hash) /\ code = "good"
    THEN (IF phone \in twoFA THEN "password_needed" ELSE "ok")
    ELSE "error"

\* client.sign_in(password=...)
SignInPassword(password) == IF password = "right" THEN "ok" ELSE "error"

\* user_client.is_user_authorized() for a client built from a stored token
IsUserAuthorized(token) == token \in tgAuth

\* ---- helpers on requests ----
InFlight(r) == req[r].pc \notin {"idle", "done"}

\* a new request takes the free slot "a" before the free slot "b"
Free(r) == req[r].pc = "idle" /\ (r = "b" => req["a"].pc # "idle")

\* a request for phone p starts in slot r: it is alone on p unless another
\* request for p is running, and every running request for p stops being alone
Admit(r, p, new) ==
    LET busy == \E s \in Slots \ {r} : InFlight(s) /\ req[s].phone = p
    IN [s \in Slots |->
          IF s = r THEN [new EXCEPT !.solo = ~busy]
          ELSE IF InFlight(s) /\ req[s].phone = p
               THEN [req[s] EXCEPT !.solo = FALSE]
               ELSE req[s]]

\* the handler ends with an HTTP status: its locals are gone, the response
\* and what the request did to the outside world remain
Finish(rq, status, detail) ==
    [IdleReq EXCEPT !.pc = "done", !.kind = rq.kind, !.phone = rq.phone,
                    !.status = status,
                    !.detail = detail, !.conn = rq.conn, !.authorized = rq.authorized,
                    !.sentText = rq.sentText, !.sentLoc = rq.sentLoc,
                    !.failed = rq.failed]

\* the handler ends with an exception nothing catches (the framework answers 500)
Crash(rq, what) ==
    [Finish(rq, 500, what) EXCEPT !.unhandled = TRUE]

Init ==
    /\ app \in {"main.py", "telegram.py"}
    /\ twoFA \in SUBSET Callers
    /\ app = "telegram.py" => twoFA = {}
    /\ req = [r \in Slots |-> IdleReq]
    /\ temp_login_cache = [p \in {} |-> [phone_code_hash |-> NoHash]]
    /\ users \in [Phones -> {NoDoc} \cup {UserDoc(p, NoTok) : p \in Callers}]
    /\ \A p \in Phones : users[p].exists => users[p].phone = p /\ app = "main.py"
    /\ db \in BOOLEAN
    /\ app = "telegram.py" => ~db
    /\ client \in BOOLEAN
    /\ app = "main.py" => ~client
    /\ envAuth = client
    /\ tgHash = [p \in Phones |-> NoHash]
    /\ tgUsed = {}
    /\ tgAuth = {}
    /\ nTok = 0
    /\ lastIssued = [p \in Phones |-> NoHash]
    /\ lastOkTok = [p \in Phones |-> NoTok]

\* ---------------- main.py: login_step_1 ----------------

\* POST /autenticacao/iniciar: builds the client and awaits connect()
login_step_1(r, p) ==
    /\ app = "main.py" /\ Free(r)
    /\ req' = Admit(r, p, [IdleReq EXCEPT !.pc = "s1_connect", !.kind = "start", !.phone = p])
    /\ UNCHANGED <<temp_login_cache, users, env, net, lastIssued, lastOkTok>>

\* connect() returns, or raises outside the try block: nothing disconnects
login_step_1_connect(r) ==
    /\ req[r].pc = "s1_connect"
    /\ \/ req' = [req EXCEPT ![r].pc = "s1_send_code", ![r].conn = "open"]
       \/ \E left \in {"none", "open"} :
            req' = [req EXCEPT ![r] = Crash([req[r] EXCEPT !.conn = left, !.failed = "connect"],
                                            "connect raised")]
    /\ UNCHANGED <<temp_login_cache, users, env, net, lastIssued, lastOkTok>>

\* send_code_request() reaches the network, which sends a new code and hash
\* (or refuses: bad phone format, flood wait, network down)
login_step_1_send_code(r) ==
    /\ req[r].pc = "s1_send_code"
    /\ \/ /\ tgHash' = [tgHash EXCEPT ![req[r].phone] = NewHash(req[r].phone)]
          /\ tgUsed' = tgUsed \ {req[r].phone}
          /\ req' = [req EXCEPT ![r].pc = "s1_code_sent",
                                ![r].cached = NewHash(req[r].phone)]
       \/ /\ req' = [req EXCEPT ![r].pc = "s1_disconnect", ![r].pend = 400,
                                ![r].detail = "Erro ao solicitar codigo",
                                ![r].failed = "send_code_request"]
          /\ UNCHANGED <<tgHash, tgUsed>>
    /\ UNCHANGED <<temp_login_cache, users, env, tgAuth, nTok, lastIssued, lastOkTok>>

\* a store that files the hash under every phone
login_step_1_store_all(r) ==
    /\ req[r].pc = "s1_code_sent"
    /\ temp_login_cache' = [q \in Phones |-> [phone_code_hash |-> req[r].cached]]
    /\ lastIssued' = [lastIssued EXCEPT ![req[r].phone] = req[r].cached]
    /\ req' = [req EXCEPT ![r].pc = "s1_disconnect", ![r].pend = 200,
                          ![r].detail = "sucesso"]
    /\ UNCHANGED <<users, env, net, lastOkTok>>

\* send_code_request() returns: the hash goes into the cache
login_step_1_store(r) ==
    /\ req[r].pc = "s1_code_sent"
    /\ temp_login_cache' = CachePut(temp_login_cache, req[r].phone, req[r].cached)
    /\ lastIssued' = [lastIssued EXCEPT ![req[r].phone] = req[r].cached]
    /\ req' = [req EXCEPT ![r].pc = "s1_disconnect", ![r].pend = 200,
                          ![r].detail = "sucesso"]
    /\ UNCHANGED <<users, env, net, lastOkTok>>

\* finally: disconnect(), then the response or the HTTPException leaves
login_step_1_disconnect(r) ==
    /\ req[r].pc = "s1_disconnect"
    /\ req' = [req EXCEPT ![r] = Finish([req[r] EXCEPT !.conn = "closed"],
                                        req[r].pend, req[r].detail)]
    /\ UNCHANGED <<temp_login_cache, users, env, net, lastIssued, lastOkTok>>

\* ---------------- main.py: login_step_2 ----------------

\* a login_step_2 that connects without looking for the pending entry
login_step_2_unchecked(r, p) ==
    /\ app = "main.py" /\ Free(r)
    /\ req' = Admit(r, p, [IdleReq EXCEPT !.kind = "finish", !.phone = p, !.pc = "s2_connect",
                   !.cached = IF p \in DOMAIN temp_login_cache
                              THEN temp_login_cache[p].phone_code_hash ELSE NoHash])
    /\ UNCHANGED <<temp_login_cache, users, env, net, lastIssued, lastOkTok>>

\* POST /autenticacao/finalizar: cache lookup, then client and connect()
login_step_2(r, p) ==
    /\ app = "main.py" /\ Free(r)
    /\ LET new == [IdleReq EXCEPT !.kind = "finish", !.phone = p]
       IN IF p \notin DOMAIN temp_login_cache
          THEN req' = [req EXCEPT ![r] = Finish(new, 400, "Sessao nao encontrada")]
          ELSE req' = Admit(r, p, [new EXCEPT !.pc = "s2_connect",
                              !.cached = temp_login_cache[p].phone_code_hash,
                              !.fresh = Redeemable(p, temp_login_cache[p].phone_code_hash)])
    /\ UNCHANGED <<temp_login_cache, users, env, net, lastIssued, lastOkTok>>

\* connect() returns, or raises before the try block
login_step_2_connect(r) ==
    /\ req[r].pc = "s2_connect"
    /\ \/ req' = [req EXCEPT ![r].pc = "s2_sign_in", ![r].conn = "open"]
       \/ \E left \in {"none", "open"} :
            req' = [req EXCEPT ![r] = Crash([req[r] EXCEPT !.conn = left, !.failed = "connect"],
                                            "connect raised")]
    /\ UNCHANGED <<temp_login_cache, users, env, net, lastIssued, lastOkTok>>

\* a handler whose generic 'except Exception' also takes the 2FA signal
AfterSignInCodeGeneric(rq, answer, token) ==
    IF answer = "ok"
    THEN [rq EXCEPT !.pc = "s2_disconnect_ok", !.tok = token, !.answer = answer]
    ELSE [rq EXCEPT !.pc = "s2_disconnect_err", !.pend = 400,
                    !.detail = "Erro no login (Codigo invalido?)", !.answer = answer,
                    !.failed = "sign_in"]

\* what the handler does with the answer to sign_in(phone, code, phone_code_hash)
AfterSignInCode(rq, answer, token) ==
    IF answer = "ok"
    THEN [rq EXCEPT !.pc = "s2_disconnect_ok", !.tok = token, !.answer = answer]
    ELSE IF answer = "password_needed"
    THEN (IF rq.password = "None"
          THEN [rq EXCEPT !.pc = "s2_disconnect_err", !.pend = 401,
                          !.detail = "Esta conta possui 2FA", !.answer = answer]
          ELSE [rq EXCEPT !.pc = "s2_sign_in_password", !.answer = answer])
    ELSE [rq EXCEPT !.pc = "s2_disconnect_err", !.pend = 400,
                    !.detail = "Erro no login (Codigo invalido?)", !.answer = answer,
                    !.failed = "sign_in"]

\* the network accepts the login of rq: a session token is born; a code that
\* was accepted cannot be redeemed again
Grant(rq) ==
    /\ nTok < MaxTok
    /\ nTok' = nTok + 1
    /\ tgAuth' = tgAuth \cup {nTok + 1}
    /\ tgUsed' = tgUsed \cup {rq.phone}
    /\ UNCHANGED tgHash

\* sign_in with the code and the hash read from the cache at the start;
\* request.code and request.password are first read here
login_step_2_sign_in(r, code, password) ==
    /\ req[r].pc = "s2_sign_in"
    /\ LET rq == [req[r] EXCEPT !.presented = req[r].cached, !.code = code,
                                !.password = password]
           answer == SignInCode(rq.phone, rq.code, rq.presented)
       IN IF answer = "ok"
          THEN /\ Grant(rq)
               /\ req' = [req EXCEPT ![r] = AfterSignInCode(rq, answer, nTok + 1)]
          ELSE /\ req' = [req EXCEPT ![r] = AfterSignInCode(rq, answer, NoTok)]
               /\ tgUsed' = IF answer = "password_needed"
                            THEN tgUsed \cup {rq.phone} ELSE tgUsed
               /\ UNCHANGED <<tgHash, tgAuth, nTok>>
    /\ UNCHANGED <<temp_login_cache, users, env, lastIssued, lastOkTok>>

\* what the handler does with the answer to sign_in(password=...)
AfterSignInPassword(rq, answer, token) ==
    IF answer = "ok"
    THEN [rq EXCEPT !.pc = "s2_disconnect_ok", !.tok = token]
    ELSE [rq EXCEPT !.pc = "s2_disconnect_err", !.pend = 401,
                    !.detail = "Senha 2FA incorreta", !.failed = "sign_in_password"]

\* sign_in with the second-factor password
login_step_2_sign_in_password(r) ==
    /\ req[r].pc = "s2_sign_in_password"
    /\ LET answer == SignInPassword(req[r].password)
       IN IF answer = "ok"
          THEN /\ Grant(req[r])
               /\ req' = [req EXCEPT ![r] = AfterSignInPassword(req[r], answer, nTok + 1)]
          ELSE /\ req' = [req EXCEPT ![r] = AfterSignInPassword(req[r], answer, NoTok)]
               /\ UNCHANGED net
    /\ UNCHANGED <<temp_login_cache, users, env, lastIssued, lastOkTok>>

\* the failure branches: disconnect(), then the HTTPException leaves
login_step_2_disconnect_err(r) ==
    /\ req[r].pc = "s2_disconnect_err"
    /\ req' = [req EXCEPT ![r] = Finish([req[r] EXCEPT !.conn = "closed"],
                                        req[r].pend, req[r].detail)]
    /\ UNCHANGED <<temp_login_cache, users, env, net, lastIssued, lastOkTok>>

\* the success branch after disconnect(): save the session, drop the cache entry
login_step_2_save(r) ==
    /\ req[r].pc = "s2_disconnect_ok"
    /\ LET rq == [req[r] EXCEPT !.conn = "closed"]
           p == rq.phone
       IN IF ~db
          THEN /\ req' = [req EXCEPT ![r] =
                            Finish(rq, 500, "Banco de dados Firebase nao conectado")]
               /\ UNCHANGED <<users, temp_login_cache, lastIssued, lastOkTok>>
          ELSE \/ \* doc_ref.set raises
                  /\ req' = [req EXCEPT ![r] =
                               Finish([rq EXCEPT !.failed = "set"], 500,
                                      "Logou no Telegram, mas erro ao salvar no Firebase")]
                  /\ UNCHANGED <<users, temp_login_cache, lastIssued, lastOkTok>>
               \/ \* doc_ref.set succeeds, then del temp_login_cache[phone]
                  /\ users' = [users EXCEPT ![p] = UserDoc(p, rq.tok)]
                  /\ IF p \in DOMAIN temp_login_cache
                     THEN /\ temp_login_cache' = CacheDel(temp_login_cache, p)
                          /\ req' = [req EXCEPT ![r] = Finish(rq, 200, "sucesso")]
                          /\ lastOkTok' = [lastOkTok EXCEPT ![p] = rq.tok]
                          /\ lastIssued' = [lastIssued EXCEPT ![p] = NoHash]
                     ELSE /\ req' = [req EXCEPT ![r] =
                                       Crash([rq EXCEPT !.failed = "del"], "KeyError")]
                          /\ UNCHANGED <<temp_login_cache, lastIssued, lastOkTok>>
    /\ UNCHANGED <<env, net>>

\* ---------------- main.py: send_alert ----------------

\* a lookup that does not look at the session string
AlertLookupNoTokenCheck(hasDb, doc) ==
    IF ~hasDb THEN 500
    ELSE IF ~doc.exists THEN 404
    ELSE 0

\* what send_alert answers before it builds a client (0: it goes on)
AlertLookup(hasDb, doc) ==
    IF ~hasDb THEN 500
    ELSE IF ~doc.exists THEN 404
    ELSE IF SessionStr(doc) = NoTok THEN 401
    ELSE 0

AlertLookupDetail(status) ==
    IF status = 500 THEN "Banco de dados desconectado"
    ELSE IF status = 404 THEN "Usuario nao encontrado"
    ELSE "Sessao invalida no banco de dados"

\* POST /enviar-alerta: reads the session of the sender, awaits connect()
send_alert(r, p) ==
    /\ app = "main.py" /\ Free(r)
    /\ LET new == [IdleReq EXCEPT !.kind = "alert", !.phone = p]
           st == AlertLookup(db, users[p])
       IN IF st # 0
          THEN req' = [req EXCEPT ![r] = Finish(new, st, AlertLookupDetail(st))]
          ELSE req' = Admit(r, p, [new EXCEPT !.pc = "sa_connect",
                                              !.tok = SessionStr(users[p])])
    /\ UNCHANGED <<temp_login_cache, users, env, net, lastIssued, lastOkTok>>

\* an exception (or the HTTPException 401) inside the try block: caught by
\* 'except Exception', turned into 500; the finally block still disconnects
AlertFail(rq, what) ==
    [rq EXCEPT !.pc = "sa_disconnect", !.pend = 500,
               !.detail = "Falha ao enviar pelo Telegram", !.failed = what]

\* connect() of the user's client, inside the try block
send_alert_connect(r) ==
    /\ req[r].pc = "sa_connect"
    /\ \/ req' = [req EXCEPT ![r].pc = "sa_authorized", ![r].conn = "open"]
       \/ req' = [req EXCEPT ![r] = AlertFail([req[r] EXCEPT !.conn = "open"], "connect")]
    /\ UNCHANGED <<temp_login_cache, users, env, net, lastIssued, lastOkTok>>

\* what send_alert does with the answer of is_user_authorized()
AfterAuthorized(rq, answer) ==
    IF answer
    THEN [rq EXCEPT !.pc = "sa_send_message", !.authorized = "yes"]
    ELSE AlertFail([rq EXCEPT !.authorized = "no"], "")

send_alert_authorized(r) ==
    /\ req[r].pc = "sa_authorized"
    /\ \/ req' = [req EXCEPT ![r] = AfterAuthorized(req[r], IsUserAuthorized(req[r].tok))]
       \/ req' = [req EXCEPT ![r] = AlertFail(req[r], "is_user_authorized")]
    /\ UNCHANGED <<temp_login_cache, users, env, net, lastIssued, lastOkTok>>

\* a text send whose failure is swallowed: the location is sent all the same
send_alert_send_message_swallow(r) ==
    /\ req[r].pc = "sa_send_message"
    /\ \/ req' = [req EXCEPT ![r].pc = "sa_send_file", ![r].sentText = TRUE]
       \/ req' = [req EXCEPT ![r].pc = "sa_send_file", ![r].failed = "send_message"]
    /\ UNCHANGED <<temp_login_cache, users, env, net, lastIssued, lastOkTok>>

\* send_message(contact_phone, final_message)
send_alert_send_message(r) ==
    /\ req[r].pc = "sa_send_message"
    /\ \/ req' = [req EXCEPT ![r].pc = "sa_send_file", ![r].sentText = TRUE]
       \/ req' = [req EXCEPT ![r] = AlertFail(req[r], "send_message")]
    /\ UNCHANGED <<temp_login_cache, users, env, net, lastIssued, lastOkTok>>

\* send_file(contact_phone, file=geo)
send_alert_send_file(r) ==
    /\ req[r].pc = "sa_send_file"
    /\ \/ req' = [req EXCEPT ![r].pc = "sa_disconnect", ![r].sentLoc = TRUE,
                             ![r].pend = 200, ![r].detail = "sucesso"]
       \/ req' = [req EXCEPT ![r] = AlertFail(req[r], "send_file")]
    /\ UNCHANGED <<temp_login_cache, users, env, net, lastIssued, lastOkTok>>

\* finally: disconnect()
send_alert_disconnect(r) ==
    /\ req[r].pc = "sa_disconnect"
    /\ req' = [req EXCEPT ![r] = Finish([req[r] EXCEPT !.conn = "closed"],
                                        req[r].pend, req[r].detail)]
    /\ UNCHANGED <<temp_login_cache, users, env, net, lastIssued, lastOkTok>>

\* ---------------- telegram.py: handle_send_alert ----------------

\* POST /enviar-alerta of telegram.py: the client check, then is_user_authorized()
handle_send_alert(r) ==
    /\ app = "telegram.py" /\ Free(r)
    /\ LET new == [IdleReq EXCEPT !.kind = "talert"]
       IN IF ~client
          THEN req' = [req EXCEPT ![r] = Finish(new, 500, "Cliente Telegram nao inicializado")]
          ELSE req' = [req EXCEPT ![r] = [new EXCEPT !.pc = "ha_authorized", !.conn = "shared"]]
    /\ UNCHANGED <<temp_login_cache, users, env, net, lastIssued, lastOkTok>>

\* is_user_authorized() is awaited before the try block
handle_send_alert_authorized(r) ==
    /\ req[r].pc = "ha_authorized"
    /\ \/ IF envAuth
          THEN req' = [req EXCEPT ![r].pc = "ha_send_message", ![r].authorized = "yes"]
          ELSE req' = [req EXCEPT ![r] = Finish([req[r] EXCEPT !.authorized = "no"], 401,
                                                "ERRO DE AUTENTICACAO")]
       \/ req' = [req EXCEPT ![r] = Crash([req[r] EXCEPT !.failed = "is_user_authorized"],
                                          "is_user_authorized raised")]
    /\ UNCHANGED <<temp_login_cache, users, env, net, lastIssued, lastOkTok>>

\* send_message inside the try block
handle_send_alert_send_message(r) ==
    /\ req[r].pc = "ha_send_message"
    /\ \/ req' = [req EXCEPT ![r].pc = "ha_send_file", ![r].sentText = TRUE]
       \/ req' = [req EXCEPT ![r] = Finish([req[r] EXCEPT !.failed = "send_message"], 500,
                                           "Falha ao enviar")]
    /\ UNCHANGED <<temp_login_cache, users, env, net, lastIssued, lastOkTok>>

\* send_file inside the try block
handle_send_alert_send_file(r) ==
    /\ req[r].pc = "ha_send_file"
    /\ \/ req' = [req EXCEPT ![r] = Finish([req[r] EXCEPT !.sentLoc = TRUE], 200, "sucesso")]
       \/ req' = [req EXCEPT ![r] = Finish([req[r] EXCEPT !.failed = "send_file"], 500,
                                           "Falha ao enviar")]
    /\ UNCHANGED <<temp_login_cache, users, env, net, lastIssued, lastOkTok>>

\* ---------------- telegram.py: health_check ----------------

\* a health check that asks the client without looking whether there is one
health_check_unguarded(r) ==
    /\ app = "telegram.py" /\ Free(r)
    /\ req' = [req EXCEPT ![r] = [IdleReq EXCEPT !.kind = "health", !.pc = "hc_authorized",
                                                 !.conn = "shared"]]
    /\ UNCHANGED <<temp_login_cache, users, env, net, lastIssued, lastOkTok>>

\* GET /: 'await client.is_user_authorized() if client else False'
health_check(r) ==
    /\ app = "telegram.py" /\ Free(r)
    /\ LET new == [IdleReq EXCEPT !.kind = "health"]
       IN IF ~client
          THEN req' = [req EXCEPT ![r] = Finish([new EXCEPT !.authorized = "no"], 200, "online")]
          ELSE req' = [req EXCEPT ![r] = [new EXCEPT !.pc = "hc_authorized", !.conn = "shared"]]
    /\ UNCHANGED <<temp_login_cache, users, env, net, lastIssued, lastOkTok>>

\* is_user_authorized() answers (or raises: nothing catches it; without a
\* client the call itself raises), and the status document is returned
health_check_authorized(r) ==
    /\ req[r].pc = "hc_authorized"
    /\ \/ /\ client
          /\ req' = [req EXCEPT ![r] =
                       Finish([req[r] EXCEPT !.authorized = IF envAuth THEN "yes" ELSE "no"],
                              200, "online")]
       \/ req' = [req EXCEPT ![r] = Crash([req[r] EXCEPT !.failed = "is_user_authorized"],
                                          "is_user_authorized raised")]
    /\ UNCHANGED <<temp_login_cache, users, env, net, lastIssued, lastOkTok>>

\* ---------------- environment ----------------

\* the response has left: the slot is free again
Respond(r) ==
    /\ req[r].pc = "done"
    /\ req' = [req EXCEPT ![r] = IdleReq]
    /\ UNCHANGED <<temp_login_cache, users, env, net, lastIssued, lastOkTok>>

\* the messaging network revokes a stored session
Expire(t) ==
    /\ t \in tgAuth
    /\ \E p \in Phones : users[p].exists /\ SessionStr(users[p]) = t
    /\ tgAuth' = tgAuth \ {t}
    /\ UNCHANGED <<req, temp_login_cache, users, env, tgHash, tgUsed, nTok, lastIssued, lastOkTok>>

\* the messaging network revokes TELEGRAM_SESSION
ExpireEnv ==
    /\ envAuth /\ client
    /\ envAuth' = FALSE
    /\ UNCHANGED <<twoFA, app, req, temp_login_cache, users, db, client, net, lastIssued, lastOkTok>>

\* a step of some handler, or of the messaging network
Step ==
    \/ \E r \in Slots, p \in Callers : login_step_1(r, p)
    \/ \E r \in Slots : login_step_1_connect(r)
    \/ \E r \in Slots : login_step_1_send_code(r)
    \/ \E r \in Slots : login_step_1_store(r)
    \/ \E r \in Slots : login_step_1_disconnect(r)
    \/ \E r \in Slots, p \in Callers : login_step_2(r, p)
    \/ \E r \in Slots : login_step_2_connect(r)
    \/ \E r \in Slots, c \in Codes, w \in Passwords : login_step_2_sign_in(r, c, w)
    \/ \E r \in Slots : login_step_2_sign_in_password(r)
    \/ \E r \in Slots : login_step_2_disconnect_err(r)
    \/ \E r \in Slots : login_step_2_save(r)
    \/ \E r \in Slots, p \in Callers : send_alert(r, p)
    \/ \E r \in Slots : send_alert_connect(r)
    \/ \E r \in Slots : send_alert_authorized(r)
    \/ \E r \in Slots : send_alert_send_message(r)
    \/ \E r \in Slots : send_alert_send_file(r)
    \/ \E r \in Slots : send_alert_disconnect(r)
    \/ \E r \in Slots : handle_send_alert(r)
    \/ \E r \in Slots : handle_send_alert_authorized(r)
    \/ \E r \in Slots : handle_send_alert_send_message(r)
    \/ \E r \in Slots : handle_send_alert_send_file(r)
    \/ \E r \in Slots : health_check(r)
    \/ \E r \in Slots : health_check_authorized(r)
    \/ \E t \in Tokens : Expire(t)
    \/ ExpireEnv

\* a finished request is answered before anything else runs
Quiet == \A r \in Slots : req[r].pc # "done"

Next ==
    \/ Quiet /\ Step
    \/ \E r \in Slots : Respond(r)

Spec == Init /\ [][Next]_vars

\* ---------------- main.py: process restart ----------------

\* a restart after which the pending entries are still there
RestartKeepingCache ==
    /\ app = "main.py"
    /\ req' = [r \in Slots |-> IdleReq]
    /\ UNCHANGED <<temp_login_cache, users, env, net, lastIssued, lastOkTok>>

\* the process stops and starts again: the module is loaded anew, so
\* temp_login_cache = {} and every running handler is gone; the store and the
\* messaging network keep what they hold
Restart ==
    /\ app = "main.py"
    /\ req' = [r \in Slots |-> IdleReq]
    /\ temp_login_cache' = [p \in {} |-> [phone_code_hash |-> NoHash]]
    /\ lastIssued' = [p \in Phones |-> NoHash]
    /\ UNCHANGED <<users, env, net, lastOkTok>>

NextRestart ==
    \/ Next
    \/ Restart

SpecRestart == Init /\ [][NextRestart]_vars

\* ---------------- main.py with two phones ----------------

\* main.py with the store connected, serving two phones, the first under 2FA
InitTwo ==
    /\ app = "main.py"
    /\ twoFA = {"p1"}
    /\ req = [r \in Slots |-> IdleReq]
    /\ temp_login_cache = [p \in {} |-> [phone_code_hash |-> NoHash]]
    /\ users = [p \in Phones |-> NoDoc]
    /\ db = TRUE
    /\ client = FALSE
    /\ envAuth = FALSE
    /\ tgHash = [p \in Phones |-> NoHash]
    /\ tgUsed = {}
    /\ tgAuth = {}
    /\ nTok = 0
    /\ lastIssued = [p \in Phones |-> NoHash]
    /\ lastOkTok = [p \in Phones |-> NoTok]

\* a step of some handler of main.py, for either phone; a phone asks for a
\* code as long as the network has sent it none
StepTwo ==
    \/ \E r \in Slots, p \in Phones : tgHash[p] = NoHash /\ login_step_1(r, p)
    \/ \E r \in Slots : login_step_1_connect(r)
    \/ \E r \in Slots : login_step_1_send_code(r)
    \/ \E r \in Slots : login_step_1_store(r)
    \/ \E r \in Slots : login_step_1_disconnect(r)
    \/ \E r \in Slots, p \in Phones : login_step_2(r, p)
    \/ \E r \in Slots : login_step_2_connect(r)
    \/ \E r \in Slots, c \in Codes, w \in Passwords : login_step_2_sign_in(r, c, w)
    \/ \E r \in Slots : login_step_2_sign_in_password(r)
    \/ \E r \in Slots : login_step_2_disconnect_err(r)
    \/ \E r \in Slots : login_step_2_save(r)
    \/ \E r \in Slots, p \in Phones : send_alert(r, p)
    \/ \E r \in Slots : send_alert_connect(r)
    \/ \E r \in Slots : send_alert_authorized(r)
    \/ \E r \in Slots : send_alert_send_message(r)
    \/ \E r \in Slots : send_alert_send_file(r)
    \/ \E r \in Slots : send_alert_disconnect(r)
    \/ \E t \in Tokens : Expire(t)

NextTwo ==
    \/ Quiet /\ StepTwo
    \/ \E r \in Slots : Respond(r)

SpecTwo == InitTwo /\ [][NextTwo]_vars

\* ---------------- properties ----------------

\* a request of kind k arrives in slot r in this step
Begins(r, k) == req[r].pc = "idle" /\ req'[r].kind = k

\* the handler of slot r returns or raises in this step
Ends(r) == InFlight(r) /\ req'[r].pc = "done"

\* the request of slot r is answered st in this step, having opened no
\* connection and sent nothing
Rejected(r, st) ==
    /\ req'[r].pc = "done" /\ req'[r].status = st
    /\ req'[r].conn = "none" /\ ~req'[r].sentText /\ ~req'[r].sentLoc

\* the document doc is the users record of phone p and carries token t
Holds(doc, p, t) == doc.exists /\ doc.phone = p /\ doc.session_string = t

\* C1: a send-alert whose authorization check returned false ends with status
\* 401 and has sent neither the text nor the location, in main.py and in
\* telegram.py.
C1_Unauthorized401 ==
    \A r \in Slots :
        (req[r].pc = "done" /\ req[r].kind \in {"alert", "talert"}
            /\ req[r].authorized = "no")
        => (req[r].status = 401 /\ ~req[r].sentText /\ ~req[r].sentLoc)

\* C2: no finished request of main.py has its connection still open.
C2_NoOpenConnection ==
    \A r \in Slots :
        (req[r].pc = "done" /\ req[r].kind \in {"start", "finish", "alert"})
        => req[r].conn # "open"

\* C3: a login-finish for a phone without pending entry is answered 400, opens
\* no connection and leaves the users collection as it was.
C3_NoPending400 ==
    [][\A r \in Slots :
          (Begins(r, "finish") /\ req'[r].phone \notin DOMAIN temp_login_cache)
          => (Rejected(r, 400) /\ users' = users)]_vars

C3_Witness ==
    \E r \in Slots :
        /\ req[r].pc = "done" /\ req[r].kind = "finish" /\ req[r].status = 400
        /\ req[r].detail = "Sessao nao encontrada"
        /\ req[r].phone \notin DOMAIN temp_login_cache

\* C4: once the code redemption of a login-finish has signalled that a
\* password is needed, a missing or a rejected password ends the request with
\* 401 and the request never writes the users collection; with the right
\* password the network grants a session and the request goes on to save it
\* (200 with the record written, unless the store or the cache removal fails).
C4_TwoFactor ==
    /\ [](\A r \in Slots :
            (req[r].answer = "password_needed" /\ req[r].password # "right")
            => /\ req[r].pc \in {"s2_sign_in_password", "s2_disconnect_err"}
               /\ req[r].password = "None" => req[r].pc = "s2_disconnect_err"
               /\ req[r].pc = "s2_disconnect_err" => req[r].pend = 401
               /\ req[r].tok = NoTok)
    /\ [][\A r \in Slots :
            (req[r].answer = "password_needed" /\ req'[r] # req[r])
            => /\ req[r].password # "right"
                  => (users' = users /\ (req'[r].pc = "done" => req'[r].status = 401))
               /\ (req[r].password = "right" /\ req'[r].pc = "done")
                  => /\ req[r].tok # NoTok
                     /\ req'[r].status \in {200, 500}
                     /\ (db /\ req'[r].failed = "")
                        => /\ req'[r].status = 200
                           /\ Holds(users'[req[r].phone], req[r].phone, req[r].tok)]_vars

C4_Witness ==
    \E r \in Slots :
        /\ req[r].pc = "done" /\ req[r].kind = "finish" /\ req[r].status = 401
        /\ req[r].detail = "Senha 2FA incorreta"
        /\ req[r].phone \in twoFA

\* C5 as stated: a send-alert for a phone without users record is answered
\* 404, one for a record with an empty session string 401, and neither
\* connects nor sends.
C5_Original ==
    [][\A r \in Slots :
          Begins(r, "alert")
          => LET doc == users[req'[r].phone]
             IN /\ ~doc.exists => Rejected(r, 404)
                /\ (doc.exists /\ SessionStr(doc) = NoTok) => Rejected(r, 401)]_vars

\* C5 amended: with the store client available, a send-alert for a phone
\* without users record is answered 404, one for a record with an empty
\* session string 401, and neither connects nor sends.
C5_NoRecord ==
    [][\A r \in Slots :
          (Begins(r, "alert") /\ db)
          => LET doc == users[req'[r].phone]
             IN /\ ~doc.exists => Rejected(r, 404)
                /\ (doc.exists /\ SessionStr(doc) = NoTok) => Rejected(r, 401)]_vars

C5_Witness ==
    \E r \in Slots :
        /\ req[r].pc = "done" /\ req[r].kind = "alert" /\ req[r].status = 401
        /\ req[r].conn = "none" /\ db
        /\ users[req[r].phone].exists /\ SessionStr(users[req[r].phone]) = NoTok

\* C6: with the store available and nothing else running for the phone: a
\* successful login-start leaves a redeemable hash in the cache; a login-finish
\* that starts from it with the right code (and password under 2FA) returns
\* 200 and has written the users record with the token the network granted;
\* a send-alert that reads a record whose token is authorized passes the
\* check, sends the text and the location and returns 200. Failures of
\* connect, of the store write and of the sends are excluded.
C6_FullFlow ==
    [][\A r \in Slots :
          LET p == req[r].phone IN
          /\ (req[r].pc = "s1_code_sent" /\ req[r].solo /\ req'[r].pc = "s1_disconnect")
             => /\ p \in DOMAIN temp_login_cache'
                /\ temp_login_cache'[p].phone_code_hash = tgHash'[p]
                /\ p \notin tgUsed'
                /\ req'[r].pend = 200
          /\ (Begins(r, "finish") /\ req'[r].solo
                /\ req'[r].phone \in DOMAIN temp_login_cache
                /\ Redeemable(req'[r].phone, temp_login_cache[req'[r].phone].phone_code_hash))
             => req'[r].fresh
          /\ (Ends(r) /\ req[r].kind = "finish" /\ req[r].fresh /\ req[r].solo
                /\ req[r].code = "good" /\ (p \in twoFA => req[r].password = "right")
                /\ db /\ req'[r].failed \notin {"connect", "set"})
             => /\ req'[r].status = 200
                /\ req[r].tok # NoTok
                /\ Holds(users'[p], p, req[r].tok)
          /\ (Ends(r) /\ req[r].kind = "alert" /\ req[r].solo /\ req'[r].failed = ""
                /\ users[p].exists /\ SessionStr(users[p]) \in tgAuth)
             => /\ req'[r].status = 200
                /\ req'[r].authorized = "yes"
                /\ req'[r].sentText /\ req'[r].sentLoc]_vars

C6_Witness ==
    \E r \in Slots :
        /\ req[r].pc = "done" /\ req[r].kind = "alert" /\ req[r].status = 200
        /\ req[r].sentText /\ req[r].sentLoc
        /\ lastOkTok[req[r].phone] # NoTok
        /\ Holds(users[req[r].phone], req[r].phone, lastOkTok[req[r].phone])

\* C7: every login-start in which a transport call failed (connect or the
\* code request) is answered 400 by the handler itself.
C7_StartFailures400 ==
    \A r \in Slots :
        (req[r].pc = "done" /\ req[r].kind = "start" /\ req[r].failed # "")
        => (req[r].status = 400 /\ ~req[r].unhandled)

\* C8: no users record is ever deleted, and the users collection changes only
\* when a login-finish whose redemption produced a token writes that token
\* under its own phone and then returns 200; every other step, every failed
\* login-finish included, leaves the collection as it was.
C8_OnlySuccessfulFinishWrites ==
    [][/\ \A p \in Phones : users[p].exists => users'[p].exists
       /\ users' # users
          => \E r \in Slots :
                /\ req[r].kind = "finish" /\ req[r].tok # NoTok
                /\ Holds(users'[req[r].phone], req[r].phone, req[r].tok)
                /\ \A q \in Phones \ {req[r].phone} : users'[q] = users[q]
                /\ req'[r].pc = "done" /\ req'[r].status = 200]_vars

\* C9: the token send-alert builds its client from is the token obtained by
\* the most recent login-finish of that phone that returned success.
C9_TokenOfLastSuccess ==
    [][\A r \in Slots :
          (Begins(r, "alert") /\ req'[r].pc = "sa_connect")
          => req'[r].tok = lastOkTok[req'[r].phone]]_vars

\* C10: a login-finish reads from the cache the hash returned by the most
\* recent login-start of its phone, and that is the hash it presents to the
\* network: once a second login-start has returned, the hash of the first is
\* never read again.
C10_LatestHash ==
    /\ [](\A r \in Slots :
            (req[r].kind = "finish" /\ req[r].presented # NoHash)
            => req[r].presented = req[r].cached)
    /\ [](\A p \in DOMAIN temp_login_cache :
            temp_login_cache[p].phone_code_hash = lastIssued[p])
    /\ [][\A r \in Slots :
            (Begins(r, "finish") /\ req'[r].pc = "s2_connect")
            => /\ lastIssued[req'[r].phone] # NoHash
               /\ req'[r].cached = lastIssued[req'[r].phone]]_vars

C10_Witness ==
    \E r \in Slots :
        /\ req[r].kind = "finish" /\ req[r].presented = 2
        /\ lastIssued[req[r].phone] = 2

\* C11: in send-alert of main.py and of telegram.py the location send is
\* invoked only after the text send has succeeded; after a failed text send
\* the location send is never invoked; a failure of either send ends the
\* request with status 500.
C11_TextBeforeLocation ==
    \A r \in Slots :
        req[r].kind \in {"alert", "talert"}
        => /\ (req[r].pc \in {"sa_send_file", "ha_send_file"} \/ req[r].sentLoc
                  \/ req[r].failed = "send_file")
              => req[r].sentText
           /\ req[r].failed = "send_message"
              => /\ ~req[r].sentText /\ ~req[r].sentLoc
                 /\ req[r].pc \notin {"sa_send_file", "ha_send_file"}
           /\ req[r].failed \in {"send_message", "send_file"}
              => /\ req[r].pc \in {"sa_disconnect", "done"}
                 /\ req[r].pc = "sa_disconnect" => req[r].pend = 500
                 /\ req[r].pc = "done" => req[r].status = 500

C11_Witness ==
    \E r \in Slots :
        /\ req[r].pc = "done" /\ req[r].kind \in {"alert", "talert"}
        /\ req[r].failed = "send_file" /\ req[r].sentText /\ ~req[r].sentLoc
        /\ req[r].status = 500

\* the error message tells the caller that the login at the network went through
SaysLoginSucceeded(detail) == detail = "Logou no Telegram, mas erro ao salvar no Firebase"

\* C12: a login-finish whose redemption produced a token but whose users
\* record cannot be saved (no store client, or the store write raises) ends
\* with status 500 and a message saying that the login at the network
\* already succeeded.
C12_SaveFailureSaysLoggedIn ==
    [][\A r \in Slots :
          (Ends(r) /\ req[r].kind = "finish" /\ req[r].tok # NoTok
              /\ (~db \/ req'[r].failed = "set"))
          => (req'[r].status = 500 /\ SaysLoginSucceeded(req'[r].detail))]_vars

\* C14: under any interleaving of login-start and login-finish for one phone,
\* a login-finish removes the pending entry only if the entry still holds the
\* hash this login-finish redeemed (an entry written meanwhile by a
\* login-start stays), and the removal never fails for want of the entry.
C14_HashNotDropped ==
    [][\A r \in Slots :
          (Ends(r) /\ req[r].kind = "finish")
          => /\ (req[r].phone \in DOMAIN temp_login_cache
                    /\ req[r].phone \notin DOMAIN temp_login_cache')
                => temp_login_cache[req[r].phone].phone_code_hash = req[r].presented
             /\ req'[r].failed # "del"]_vars

\* C16: while no other request for its phone runs, a login-finish removes the
\* pending entry exactly in the step in which it returns 200 (token obtained,
\* users record written); every other step of a login-finish, the rejected
\* ones included, leaves the cache as it was; a login-start changes the
\* cache only on its way to 200, so a failing login-start leaves it as it
\* was; a retry therefore reads the hash that is still in the cache.
C16_EntryRemovedOnSuccess ==
    [][\A r \in Slots :
          LET p == req[r].phone
              ok == req'[r].pc = "done" /\ req'[r].status = 200
          IN /\ (InFlight(r) /\ req[r].solo /\ req[r].kind = "finish" /\ req'[r] # req[r])
                => /\ ok => /\ req[r].tok # NoTok
                            /\ Holds(users'[p], p, req[r].tok)
                            /\ p \in DOMAIN temp_login_cache
                            /\ p \notin DOMAIN temp_login_cache'
                            /\ \A q \in DOMAIN temp_login_cache \ {p} :
                                  /\ q \in DOMAIN temp_login_cache'
                                  /\ temp_login_cache'[q] = temp_login_cache[q]
                   /\ ~ok => temp_login_cache' = temp_login_cache
                   /\ req'[r].pc = "done" => ~req'[r].unhandled \/ req'[r].failed = "connect"
             /\ (InFlight(r) /\ req[r].solo /\ req[r].kind = "start" /\ req'[r] # req[r])
                => /\ temp_login_cache' # temp_login_cache => req'[r].pend = 200
                   /\ (req'[r].pc = "done" /\ req'[r].status # 200)
                      => (req[r].pend # 200 /\ temp_login_cache' = temp_login_cache)
             /\ Begins(r, "finish")
                => /\ temp_login_cache' = temp_login_cache
                   /\ req'[r].pc = "s2_connect"
                      => req'[r].cached = temp_login_cache[req'[r].phone].phone_code_hash]_vars

C16_Witness ==
    \E r \in Slots :
        /\ req[r].pc = "done" /\ req[r].kind = "finish" /\ req[r].status = 500
        /\ req[r].failed = "set"
        /\ \A s \in Slots \ {r} : req[s].pc = "idle"
        /\ req[r].phone \in DOMAIN temp_login_cache
        /\ temp_login_cache[req[r].phone].phone_code_hash = lastIssued[req[r].phone]

C15_RestartLosesCache ==
    [][/\ Restart => (DOMAIN temp_login_cache' = {} /\ users' = users)
       /\ \A r \in Slots :
             /\ (Begins(r, "finish") /\ req'[r].phone \notin DOMAIN temp_login_cache)
                => Rejected(r, 400)
             /\ (Begins(r, "alert") /\ db /\ users[req'[r].phone].exists
                    /\ SessionStr(users[req'[r].phone]) # NoTok)
                => /\ req'[r].pc = "sa_connect"
                   /\ req'[r].tok = SessionStr(users[req'[r].phone])]_vars

C15_Witness ==
    \E r \in Slots :
        /\ req[r].pc = "done" /\ req[r].kind = "finish" /\ req[r].status = 400
        /\ req[r].conn = "none"
        /\ Redeemable(req[r].phone, tgHash[req[r].phone])
        /\ \A s \in Slots \ {r} : req[s].pc = "idle"
        /\ DOMAIN temp_login_cache = {}
        /\ nTok = 0

\* C13: a step of a request for one phone leaves everything that belongs to
\* another phone q as it was: the pending entry of q, the users record of q,
\* what the network holds for q and every request for q; and a login-finish
\* or send-alert reads the pending entry or users record of its own phone
\* only (its answer is the one its own entry or record calls for, whatever
\* the other phone has).
C13_PhonesIndependent ==
    [][/\ \A q \in Phones :
             (\E r \in Slots :
                 req'[r] # req[r] /\ req[r].phone # q /\ req'[r].phone # q)
             => /\ (q \in DOMAIN temp_login_cache) = (q \in DOMAIN temp_login_cache')
                /\ q \in DOMAIN temp_login_cache
                   => temp_login_cache'[q] = temp_login_cache[q]
                /\ users'[q] = users[q]
                /\ tgHash'[q] = tgHash[q]
                /\ (q \in tgUsed') = (q \in tgUsed)
                /\ \A s \in Slots : req[s].phone = q => req'[s] = req[s]
       /\ \A r \in Slots :
             /\ Begins(r, "finish")
                => LET p == req'[r].phone
                   IN IF p \in DOMAIN temp_login_cache
                      THEN /\ req'[r].pc = "s2_connect"
                           /\ req'[r].cached = temp_login_cache[p].phone_code_hash
                      ELSE Rejected(r, 400)
             /\ Begins(r, "alert")
                => LET p == req'[r].phone
                   IN /\ ~users[p].exists => Rejected(r, 404)
                      /\ (users[p].exists /\ SessionStr(users[p]) # NoTok)
                         => /\ req'[r].pc = "sa_connect"
                            /\ req'[r].tok = SessionStr(users[p])]_vars

C13_Witness ==
    \E r \in Slots, s \in Slots :
        /\ req[r].phone = "p1" /\ req[s].phone = "p2"
        /\ req[r].pc = "done" /\ req[r].kind = "finish" /\ req[r].status = 200
        /\ "p1" \notin DOMAIN temp_login_cache
        /\ req[s].pc = "s2_sign_in"
        /\ "p2" \in DOMAIN temp_login_cache
        /\ temp_login_cache["p2"].phone_code_hash = req[s].cached

====
